---- MODULE Spec2Model ----
(***************************************************************************)
(* A model of access_py_telemetry: the ApiHandler singleton (api.py), the  *)
(* SessionID singleton, the delivery bridge send_in_loop / send_telemetry  *)
(* and the register_func / ipy_register_func decorators (decorators.py).   *)
(*                                                                         *)
(* Python dicts are functions, lists are sequences, an attribute that may  *)
(* be missing is a sequence of length 0 or 1.                              *)
(***************************************************************************)
EXTENDS Naturals, Sequences, FiniteSets, TLC

\* ------------------------------------------------------------------ bounds
\* operations (configuration calls, builds, sends, decorations) started in a run
MaxOps == 3
\* ApiHandler objects ever constructed (one is all the singleton ever makes)
MaxInst == 2

\* ------------------------------------------------------------- input sets
Threads == {"t1", "t2"}

\* api.py:26
SERVER_URL == "https://tracking-services-d6c2fd311c12.herokuapp.com"
LOCALHOST == "http://localhost:8000"
\* the bases a caller assigns to server_url
Urls == {LOCALHOST}

\* api.py:21-24, the services of the packaged config.yaml
ENDPOINTS == [s \in {"intake_catalog", "payu"} |->
                 IF s = "payu" THEN "/payu/update" ELSE "/intake/update"]
Services == {"intake_catalog", "payu", "nope"}
\* the services suppression lists, sends and decorations are made for: a known
\* and an unknown one
CallServices == {"payu", "nope"}

NoAttr == "<unset>"
EmptyDict == [k \in {} |-> "X"]

\* dict.get(key, default)
DictGet(d, k, default) == IF k \in DOMAIN d THEN d[k] ELSE default

\* d[k] = v on a dict
DictSet(d, k, v) == [x \in DOMAIN d \cup {k} |-> IF x = k THEN v ELSE d[x]]

\* {**base, **over}: on a common key the later mapping wins
Merge(base, over) ==
    [k \in DOMAIN base \cup DOMAIN over |->
        IF k \in DOMAIN over THEN over[k] ELSE base[k]]

\* overlay arguments: the string-keyed mappings over these keys ...
OverlayKeys == {"model", "function"}
Overlays == {[k \in K |-> "X"] : K \in {{}, {"model"}, {"function"}}}
\* ... and one argument that is no mapping (a list)
FieldInputs ==
    {[kind |-> "dict", val |-> f] : f \in Overlays}
        \cup {[kind |-> "list", val |-> EmptyDict]}

\* suppression arguments: lists of names (one of them with a name twice), or
\* one bare string
PopNames == {"name", "model"}
PopLists ==
    {<<>>, <<"name">>, <<"model">>, <<"name", "model">>, <<"name", "name">>}
PopInputs ==
    {[kind |-> "list", s |-> "", val |-> l] : l \in PopLists}
        \cup {[kind |-> "str", s |-> "name", val |-> <<>>]}

\* the characters of a string, as iterating a Python str yields them
Chars(s) ==
    CASE s = "name" -> <<"n", "a", "m", "e">>
      [] s = "model" -> <<"m", "o", "d", "e", "l">>
      [] OTHER -> <<>>

\* the call each call site reports: function name, args, kwargs
InputOf(t) ==
    IF t = "t1" THEN [fn |-> "f", args |-> "a1", kwargs |-> "k1"]
    ELSE [fn |-> "g", args |-> "a2", kwargs |-> "k2"]
CallInputs == {InputOf(t) : t \in Threads}

\* getpass.getuser()
getuser == "user"

\* the n-th value create_session_id produces (a digest of login and timestamp:
\* a fresh value on every call)
SidStr(n) == <<"sid1", "sid2", "sid3", "sid4", "sid5", "sid6", "sid7", "sid8">>[n]

VARIABLES
    _instance,      \* ApiHandler._instance: 0 is None, else the object's index
    instances,      \* the ApiHandler objects made: their instance attributes
    handles,        \* the ApiHandler objects that ApiHandler() has returned
    endpoints,      \* ApiHandler.endpoints (class attribute)
    _extra_fields,  \* ApiHandler._extra_fields (class attribute)
    _pop_fields,    \* ApiHandler._pop_fields (class attribute)
    sid_value,      \* SessionID's value: 0 is not computed yet, else SidStr index
    sid_made,       \* calls of create_session_id so far
    registry,       \* TelemetryRegister: per service, the registered names
    wrappers,       \* the wrappers the decorators have produced
    pc,             \* where each thread is inside a call
    call,           \* each thread's current (or last) call
    send,           \* the delivery started by each thread's call
    last_op,        \* the last configuration call or build, and how it ended
    ops             \* operations started

hstate == <<_instance, instances, endpoints, _extra_fields, _pop_fields>>
sstate == <<sid_value, sid_made>>
dstate == <<registry, wrappers>>
tstate == <<pc, call, send>>
vars == <<_instance, instances, handles, endpoints, _extra_fields, _pop_fields,
          sid_value, sid_made, registry, wrappers, pc, call, send, last_op, ops>>

\* ------------------------------------------------------------- ApiHandler
\* an ApiHandler object right after object.__new__: no instance attributes
FreshInstance == [url |-> NoAttr, last |-> <<>>]

\* ApiHandler.__new__ always making a new object
ApiHandler_new_fresh ==
    [inst |-> Len(instances) + 1,
     instances |-> Append(instances, FreshInstance),
     _instance |-> Len(instances) + 1]

\* ApiHandler(): __new__ makes the object once and returns it ever after
ApiHandler_new ==
    IF _instance = 0
    THEN [inst |-> Len(instances) + 1,
          instances |-> Append(instances, FreshInstance),
          _instance |-> Len(instances) + 1]
    ELSE [inst |-> _instance, instances |-> instances, _instance |-> _instance]

\* the server_url property: the instance attribute, else the class attribute
server_url(h) ==
    IF instances[h].url = NoAttr THEN SERVER_URL ELSE instances[h].url

NoOp == [op |-> "none", result |-> "none"]
NoCall ==
    [op |-> "none", svc |-> "", h |-> 0, running |-> FALSE, data |-> <<>>,
     url |-> <<>>, result |-> "none", dirty |-> FALSE, handed |-> FALSE,
     func_called |-> FALSE]
NoSend ==
    [status |-> "none", by |-> "none", loop |-> "none", url |-> <<>>,
     data |-> <<>>, posts |-> 0]

\* what stays of a call once it has returned or raised
Finished(c, result) ==
    [NoCall EXCEPT !.op = c.op, !.svc = c.svc, !.result = result,
                   !.dirty = c.dirty, !.handed = c.handed,
                   !.func_called = c.func_called]

Init ==
    /\ _instance = 0
    /\ instances = <<>>
    /\ handles = {}
    /\ endpoints = ENDPOINTS
    /\ _extra_fields = [s \in DOMAIN ENDPOINTS |-> EmptyDict]
    /\ _pop_fields = EmptyDict
    /\ sid_value = 0
    /\ sid_made = 0
    /\ registry = [s \in Services |-> {}]
    /\ wrappers = {}
    /\ pc = [t \in Threads |-> "idle"]
    /\ call = [t \in Threads |-> NoCall]
    /\ send = [t \in Threads |-> NoSend]
    /\ last_op = NoOp
    /\ ops = 0

\* some caller acquires the handler: ApiHandler()
Acquire ==
    /\ Len(instances) < MaxInst
    /\ LET r == ApiHandler_new IN
        /\ handles' = handles \cup {r.inst}
        /\ instances' = r.instances
        /\ _instance' = r._instance
    /\ UNCHANGED <<endpoints, _extra_fields, _pop_fields, sstate, dstate,
                   tstate, last_op, ops>>

\* a call that takes any argument for the mapping
ValidDict_any(in) == TRUE

\* pydantic.validate_call on fields: dict[str, Any]
ValidDict(in) == in.kind = "dict"

\* add_extra_fields storing before it checks the service
add_extra_fields_unchecked(s, in) ==
    IF ~ValidDict(in)
    THEN [result |-> "ValidationError", extra |-> _extra_fields]
    ELSE [result |-> IF s \in DOMAIN endpoints THEN "ok" ELSE "KeyError",
          extra |-> DictSet(_extra_fields, s, in.val)]

\* add_extra_fields merging into the overlay it finds
add_extra_fields_merge(s, in) ==
    IF ~ValidDict(in)
    THEN [result |-> "ValidationError", extra |-> _extra_fields]
    ELSE IF s \notin DOMAIN endpoints
    THEN [result |-> "KeyError", extra |-> _extra_fields]
    ELSE [result |-> "ok",
          extra |-> DictSet(_extra_fields, s,
                            Merge(DictGet(_extra_fields, s, EmptyDict), in.val))]

\* ApiHandler.add_extra_fields(service_name, fields): how it ends, and the
\* overlay map it leaves
add_extra_fields(s, in) ==
    IF ~ValidDict(in)
    THEN [result |-> "ValidationError", extra |-> _extra_fields]
    ELSE IF s \notin DOMAIN endpoints
    THEN [result |-> "KeyError", extra |-> _extra_fields]
    ELSE [result |-> "ok", extra |-> DictSet(_extra_fields, s, in.val)]

AddExtraFields(s, in) ==
    /\ handles # {}
    /\ ops < MaxOps
    /\ LET r == add_extra_fields(s, in) IN
        /\ _extra_fields' = r.extra
        /\ last_op' = [op |-> "add_extra_fields", result |-> r.result]
    /\ ops' = ops + 1
    /\ UNCHANGED <<_instance, instances, handles, endpoints, _pop_fields,
                   sstate, dstate, tstate>>

\* a setter that also redirects the sends that are still to go out
SetServerUrl_retarget(h, u) ==
    /\ ops < MaxOps
    /\ instances' = [instances EXCEPT ![h].url = u]
    /\ send' = [t \in Threads |->
                   IF send[t].url # <<>>
                   THEN [send[t] EXCEPT !.url = <<u, send[t].url[2]>>]
                   ELSE send[t]]
    /\ last_op' = [op |-> "server_url", result |-> "ok"]
    /\ ops' = ops + 1
    /\ UNCHANGED <<_instance, handles, endpoints, _extra_fields, _pop_fields,
                   sstate, dstate, pc, call>>

\* the server_url setter: an attribute of the object it is called on
SetServerUrl(h, u) ==
    /\ ops < MaxOps
    /\ instances' = [instances EXCEPT ![h].url = u]
    /\ last_op' = [op |-> "server_url", result |-> "ok"]
    /\ ops' = ops + 1
    /\ UNCHANGED <<_instance, handles, endpoints, _extra_fields, _pop_fields,
                   sstate, dstate, tstate>>

\* pydantic.validate_call on fields: Iterable[str] hands the function a lazy
\* validating iterator over the argument, whatever the argument was; iterating
\* a str yields its characters
ValidatorIterator(in) ==
    [kind |-> "iter", s |-> "",
     val |-> IF in.kind = "str" THEN Chars(in.s) ELSE in.val]

\* the list remove_fields stores: isinstance(fields, str) wraps a string,
\* list(fields) reads the iterable out
pop_list(v) == IF v.kind = "str" THEN <<v.s>> ELSE v.val

\* remove_fields appending to the list it finds
remove_fields_extend(s, in) ==
    DictSet(_pop_fields, s,
            DictGet(_pop_fields, s, <<>>) \o pop_list(ValidatorIterator(in)))

\* ApiHandler.remove_fields(service, fields): the suppression map it leaves
remove_fields(s, in) == DictSet(_pop_fields, s, pop_list(ValidatorIterator(in)))

RemoveFields(s, in) ==
    /\ handles # {}
    /\ ops < MaxOps
    /\ _pop_fields' = remove_fields(s, in)
    /\ last_op' = [op |-> "remove_fields", result |-> "ok"]
    /\ ops' = ops + 1
    /\ UNCHANGED <<_instance, instances, handles, endpoints, _extra_fields,
                   sstate, dstate, tstate>>

\* ---------------------------------------------------------------- SessionID
\* a read that computes a new value every time
SessionID_read_fresh == [value |-> sid_made + 1, made |-> sid_made + 1]

\* SessionID(): __new__ returns cls._instance, and reading that class attribute
\* goes through __get__, which computes the value once and returns it after
SessionID_read ==
    IF sid_value = 0
    THEN [value |-> sid_made + 1, made |-> sid_made + 1]
    ELSE [value |-> sid_value, made |-> sid_made]

\* ------------------------------------------------------- the record builder
BaseKeys == {"name", "function", "args", "kwargs", "session_id"}

\* the dict literal of _create_telemetry_record before the overlay is spread
BaseRecord(c, sid) ==
    [k \in BaseKeys |->
        CASE k = "name" -> getuser
          [] k = "function" -> c.fn
          [] k = "args" -> c.args
          [] k = "kwargs" -> c.kwargs
          [] OTHER -> SidStr(sid)]

\* telemetry_data.pop(field) for each field of the list in turn: dict.pop without
\* a default raises KeyError on a key that is not there
RECURSIVE PopAll(_, _)
PopAll(rec, fields) ==
    IF fields = <<>> THEN [ok |-> TRUE, rec |-> rec]
    ELSE IF Head(fields) \notin DOMAIN rec THEN [ok |-> FALSE, rec |-> rec]
    ELSE PopAll([k \in DOMAIN rec \ {Head(fields)} |-> rec[k]], Tail(fields))

\* a builder that ignores the suppression list
create_record_nopop(h, s, c) ==
    LET sid == SessionID_read
        rec == Merge(BaseRecord(c, sid.value), DictGet(_extra_fields, s, EmptyDict))
    IN  [ok |-> TRUE, rec |-> rec, sid |-> sid,
         instances |-> [instances EXCEPT ![h].last = <<rec>>]]

\* a builder that returns the record without keeping it
create_record_nostore(h, s, c) ==
    LET sid == SessionID_read
        merged == Merge(BaseRecord(c, sid.value), DictGet(_extra_fields, s, EmptyDict))
        popped == PopAll(merged, DictGet(_pop_fields, s, <<>>))
    IN  [ok |-> popped.ok, rec |-> popped.rec, sid |-> sid, instances |-> instances]

\* a builder that skips the suppressed names the record does not have
create_record_skip(h, s, c) ==
    LET sid == SessionID_read
        merged == Merge(BaseRecord(c, sid.value), DictGet(_extra_fields, s, EmptyDict))
        pl == DictGet(_pop_fields, s, <<>>)
        rec == [k \in DOMAIN merged \ {pl[i] : i \in 1..Len(pl)} |-> merged[k]]
    IN  [ok |-> TRUE, rec |-> rec, sid |-> sid,
         instances |-> [instances EXCEPT ![h].last = <<rec>>]]

\* ApiHandler._create_telemetry_record on object h: the record (or the KeyError
\* of a pop), the session id after the read, and the objects after
\* self._last_record = telemetry_data
create_record(h, s, c) ==
    LET sid == SessionID_read
        merged == Merge(BaseRecord(c, sid.value), DictGet(_extra_fields, s, EmptyDict))
        popped == PopAll(merged, DictGet(_pop_fields, s, <<>>))
    IN  [ok |-> popped.ok, rec |-> popped.rec, sid |-> sid,
         instances |-> IF popped.ok
                       THEN [instances EXCEPT ![h].last = <<popped.rec>>]
                       ELSE instances]

\* a direct call of _create_telemetry_record
BuildRecord(h, s, c) ==
    /\ ops < MaxOps
    /\ LET r == create_record(h, s, c) IN
        /\ instances' = r.instances
        /\ sid_value' = r.sid.value
        /\ sid_made' = r.sid.made
        /\ last_op' = [op |-> "build", result |-> IF r.ok THEN "ok" ELSE "KeyError"]
    /\ ops' = ops + 1
    /\ UNCHANGED <<_instance, handles, endpoints, _extra_fields, _pop_fields,
                   dstate, tstate>>

\* ------------------------------------------------------- send_api_request
\* the thread has no send task of its own still pending on a running loop
NoLiveTask(t) ==
    ~(send[t].loop = "running" /\ send[t].status \in {"scheduled", "posted"})

\* send_api_request, line 131: the record is built first
SarCall(t, h, s, running) ==
    /\ pc[t] = "idle"
    /\ ops < MaxOps
    /\ NoLiveTask(t)
    /\ LET r == create_record(h, s, InputOf(t))
           c == [NoCall EXCEPT !.op = "send_api_request", !.svc = s, !.h = h,
                               !.running = running, !.result = "pending",
                               !.data = IF r.ok THEN <<r.rec>> ELSE <<>>,
                               !.dirty = (r.instances # instances)]
       IN
        /\ instances' = r.instances
        /\ sid_value' = r.sid.value
        /\ sid_made' = r.sid.made
        /\ call' = [call EXCEPT ![t] = IF r.ok THEN c ELSE Finished(c, "KeyError")]
        /\ pc' = [pc EXCEPT ![t] = IF r.ok THEN "sar_resolve" ELSE "idle"]
    /\ send' = [send EXCEPT ![t] = NoSend]
    /\ ops' = ops + 1
    /\ UNCHANGED <<_instance, handles, endpoints, _extra_fields, _pop_fields,
                   dstate, last_op>>

\* lines 135-142: endpoints[service_name], KeyError re-raised, else the URL
SarResolve(t) ==
    /\ pc[t] = "sar_resolve"
    /\ IF call[t].svc \in DOMAIN endpoints
       THEN /\ call' = [call EXCEPT ![t].url =
                           <<server_url(call[t].h), endpoints[call[t].svc]>>]
            /\ pc' = [pc EXCEPT ![t] = "sar_bridge"]
       ELSE /\ call' = [call EXCEPT ![t] = Finished(call[t], "KeyError")]
            /\ pc' = [pc EXCEPT ![t] = "idle"]
    /\ UNCHANGED <<hstate, handles, sstate, dstate, send, last_op, ops>>

\* a bridge that waits for the send on a running loop as well
SarBridge_await(t) ==
    /\ pc[t] = "sar_bridge"
    /\ send' = [send EXCEPT ![t] =
                   [status |-> "scheduled", by |-> "api",
                    loop |-> IF call[t].running THEN "running" ELSE "transient",
                    url |-> call[t].url, data |-> call[t].data, posts |-> 0]]
    /\ call' = [call EXCEPT ![t].handed = TRUE]
    /\ pc' = [pc EXCEPT ![t] = "sar_wait"]
    /\ UNCHANGED <<hstate, handles, sstate, dstate, last_op, ops>>

\* a bridge that sends what the shared last-record field holds
SarBridge_last(t) ==
    /\ pc[t] = "sar_bridge"
    /\ send' = [send EXCEPT ![t] =
                   [status |-> "scheduled", by |-> "api",
                    loop |-> IF call[t].running THEN "running" ELSE "transient",
                    url |-> call[t].url, data |-> instances[call[t].h].last,
                    posts |-> 0]]
    /\ IF call[t].running
       THEN /\ call' = [call EXCEPT ![t] =
                           Finished([call[t] EXCEPT !.handed = TRUE], "ok")]
            /\ pc' = [pc EXCEPT ![t] = "idle"]
       ELSE /\ call' = [call EXCEPT ![t].handed = TRUE]
            /\ pc' = [pc EXCEPT ![t] = "sar_wait"]
    /\ UNCHANGED <<hstate, handles, sstate, dstate, last_op, ops>>

\* send_in_loop, lines 271-279. With a running loop: create_task, and the call
\* is over. Without: a new loop is made and set, and run_coroutine_threadsafe
\* queues the coroutine on it; nothing ever runs that loop
SarBridge(t) ==
    /\ pc[t] = "sar_bridge"
    /\ send' = [send EXCEPT ![t] =
                   [status |-> "scheduled", by |-> "api",
                    loop |-> IF call[t].running THEN "running" ELSE "transient",
                    url |-> call[t].url, data |-> call[t].data, posts |-> 0]]
    /\ IF call[t].running
       THEN /\ call' = [call EXCEPT ![t] =
                           Finished([call[t] EXCEPT !.handed = TRUE], "ok")]
            /\ pc' = [pc EXCEPT ![t] = "idle"]
       ELSE /\ call' = [call EXCEPT ![t].handed = TRUE]
            /\ pc' = [pc EXCEPT ![t] = "sar_wait"]
    /\ UNCHANGED <<hstate, handles, sstate, dstate, last_op, ops>>

\* a wait with no timeout: it is over only when the future is done
wait_over_untimed(t) == send[t].status \in {"ok", "warned", "raised"}

\* future.result(timeout=0.1) is over after 0.1 s at the latest, whatever
\* becomes of the future
wait_over(t) == TRUE

\* a wait whose TimeoutError is not caught
wait_result_uncaught == "TimeoutError"

\* lines 281-286: future.result(timeout=0.1). The future of a coroutine queued
\* on a loop that is not running never completes: the wait ends in TimeoutError,
\* which is caught and printed, and send_api_request returns None
wait_result == "ok"

SarWait(t) ==
    /\ pc[t] = "sar_wait"
    /\ wait_over(t)
    /\ call' = [call EXCEPT ![t] = Finished(call[t], wait_result)]
    /\ send' = [send EXCEPT ![t].url = <<>>, ![t].data = <<>>]
    /\ pc' = [pc EXCEPT ![t] = "idle"]
    /\ UNCHANGED <<hstate, handles, sstate, dstate, last_op, ops>>

\* ------------------------------------------------------------ send_telemetry
Outcomes == {"ok", "RequestError", "HTTPStatusError"}

\* a send coroutine that goes back to be posted again when its POST has failed
SendEnd_retry(by, outcome) ==
    IF outcome = "ok" THEN "ok" ELSE "scheduled"

\* how a send coroutine ends on each outcome of the POST: api.send_telemetry
\* catches RequestError and HTTPStatusError and warns; the wrapper's own
\* send_telemetry catches RequestError alone
SendEnd(by, outcome) ==
    IF outcome = "ok" THEN "ok"
    ELSE IF outcome = "RequestError" THEN "warned"
    ELSE IF by = "api" THEN "warned" ELSE "raised"

\* a task on a running loop starts once the caller has given the loop control
\* back: the POST goes out (api.py line 244, decorators.py line 111)
TaskPost(t) ==
    /\ pc[t] = "idle"
    /\ send[t].loop = "running"
    /\ send[t].status = "scheduled"
    /\ send' = [send EXCEPT ![t].status = "posted", ![t].posts = @ + 1]
    /\ UNCHANGED <<hstate, handles, sstate, dstate, pc, call, last_op, ops>>

\* the POST of a task ends
TaskEnd(t, outcome) ==
    /\ pc[t] = "idle"
    /\ send[t].loop = "running"
    /\ send[t].status = "posted"
    /\ send' = [send EXCEPT ![t].status = SendEnd(send[t].by, outcome),
                            ![t].url = <<>>, ![t].data = <<>>]
    /\ UNCHANGED <<hstate, handles, sstate, dstate, pc, call, last_op, ops>>

\* --------------------------------------------------------------- decorators
\* the decorators' optional arguments
NoExtra == [kind |-> "none", val |-> EmptyDict]
NoPop == [kind |-> "none", s |-> "", val |-> <<>>]
DecoArgs ==
    {[extra |-> NoExtra, pop |-> NoPop],
     [extra |-> [kind |-> "dict", val |-> [k \in {"model"} |-> "X"]],
      pop |-> [kind |-> "list", s |-> "", val |-> <<"name">>]]}
\* the decorated functions: f under register_func, g under ipy_register_func
Decorations ==
    {[kind |-> "register_func", fn |-> InputOf("t1").fn],
     [kind |-> "ipy_register_func", fn |-> InputOf("t2").fn]}

\* extra_fields or {}
OrEmptyDict(x) == [kind |-> "dict", val |-> x.val]
\* pop_fields or []
OrEmptyList(x) == [kind |-> "list", s |-> "", val |-> x.val]

\* a registration that records nothing
register_none(s, fn) == registry

\* TelemetryRegister(service).register(name)
register(s, fn) == [registry EXCEPT ![s] = @ \cup {fn}]

\* a decorator body that stores the list and registers the name before it
\* sets the overlay
Decorate_register_first(kind, s, fn, extra, pop) ==
    /\ ops < MaxOps
    /\ Len(instances) < MaxInst
    /\ LET r == ApiHandler_new
           a == add_extra_fields(s, OrEmptyDict(extra))
       IN
        /\ handles' = handles \cup {r.inst}
        /\ instances' = r.instances
        /\ _instance' = r._instance
        /\ last_op' = [op |-> "decorate", result |-> a.result]
        /\ _pop_fields' = remove_fields(s, OrEmptyList(pop))
        /\ registry' = register(s, fn)
        /\ IF a.result = "ok"
           THEN /\ _extra_fields' = a.extra
                /\ wrappers' = wrappers \cup
                       {[kind |-> kind, svc |-> s, fn |-> fn, h |-> r.inst]}
           ELSE UNCHANGED <<_extra_fields, wrappers>>
    /\ ops' = ops + 1
    /\ UNCHANGED <<endpoints, sstate, tstate>>

\* register_func(...)(func) and ipy_register_func(...)(func): the decorator body
Decorate(kind, s, fn, extra, pop) ==
    /\ ops < MaxOps
    /\ Len(instances) < MaxInst
    /\ LET r == ApiHandler_new
           a == add_extra_fields(s, OrEmptyDict(extra))
       IN
        /\ handles' = handles \cup {r.inst}
        /\ instances' = r.instances
        /\ _instance' = r._instance
        /\ last_op' = [op |-> "decorate", result |-> a.result]
        /\ IF a.result = "ok"
           THEN /\ _extra_fields' = a.extra
                /\ _pop_fields' = remove_fields(s, OrEmptyList(pop))
                /\ registry' = register(s, fn)
                /\ wrappers' = wrappers \cup
                       {[kind |-> kind, svc |-> s, fn |-> fn, h |-> r.inst]}
           ELSE UNCHANGED <<_extra_fields, _pop_fields, registry, wrappers>>
    /\ ops' = ops + 1
    /\ UNCHANGED <<endpoints, sstate, tstate>>

\* the register_func wrapper, lines 94-98: the record, then the endpoint
WrapCall(t, w, running) ==
    /\ pc[t] = "idle"
    /\ ops < MaxOps
    /\ NoLiveTask(t)
    /\ w \in wrappers
    /\ w.kind = "register_func"
    /\ w.fn = InputOf(t).fn
    /\ LET r == create_record(w.h, w.svc, InputOf(t))
           known == w.svc \in DOMAIN endpoints
           c == [NoCall EXCEPT !.op = "wrapper", !.svc = w.svc, !.h = w.h,
                               !.running = running, !.result = "pending",
                               !.data = IF r.ok THEN <<r.rec>> ELSE <<>>,
                               !.url = IF r.ok /\ known
                                       THEN <<server_url(w.h), endpoints[w.svc]>>
                                       ELSE <<>>,
                               !.dirty = (r.instances # instances)]
       IN
        /\ instances' = r.instances
        /\ sid_value' = r.sid.value
        /\ sid_made' = r.sid.made
        /\ call' = [call EXCEPT ![t] =
                       IF r.ok /\ known THEN c ELSE Finished(c, "KeyError")]
        /\ pc' = [pc EXCEPT ![t] = IF r.ok /\ known THEN "w_send" ELSE "idle"]
    /\ send' = [send EXCEPT ![t] = NoSend]
    /\ ops' = ops + 1
    /\ UNCHANGED <<_instance, handles, endpoints, _extra_fields, _pop_fields,
                   dstate, last_op>>

\* lines 124-135: with a running loop the send becomes a task; without, a new
\* loop runs the send to completion, and the POST goes out
WrapSend(t) ==
    /\ pc[t] = "w_send"
    /\ send' = [send EXCEPT ![t] =
                   [status |-> IF call[t].running THEN "scheduled" ELSE "posted",
                    by |-> "wrapper",
                    loop |-> IF call[t].running THEN "running" ELSE "blocking",
                    url |-> call[t].url, data |-> call[t].data,
                    posts |-> IF call[t].running THEN 0 ELSE 1]]
    /\ call' = [call EXCEPT ![t].handed = TRUE]
    /\ pc' = [pc EXCEPT ![t] = IF call[t].running THEN "w_func" ELSE "w_block"]
    /\ UNCHANGED <<hstate, handles, sstate, dstate, last_op, ops>>

\* line 135: run_until_complete returns when the send is over, or raises what
\* the send raised
WrapBlock(t, outcome) ==
    /\ pc[t] = "w_block"
    /\ send' = [send EXCEPT ![t].status = SendEnd("wrapper", outcome),
                            ![t].url = <<>>, ![t].data = <<>>]
    /\ IF SendEnd("wrapper", outcome) = "raised"
       THEN /\ call' = [call EXCEPT ![t] = Finished(call[t], outcome)]
            /\ pc' = [pc EXCEPT ![t] = "idle"]
       ELSE /\ call' = call
            /\ pc' = [pc EXCEPT ![t] = "w_func"]
    /\ UNCHANGED <<hstate, handles, sstate, dstate, last_op, ops>>

\* line 142: return func(*args, **kwargs)
WrapFunc(t) ==
    /\ pc[t] = "w_func"
    /\ call' = [call EXCEPT ![t] =
                   Finished([call[t] EXCEPT !.func_called = TRUE], "ok")]
    /\ pc' = [pc EXCEPT ![t] = "idle"]
    /\ UNCHANGED <<hstate, handles, sstate, dstate, send, last_op, ops>>

\* the ipy_register_func wrapper, line 49: the wrapped function and nothing else
IpyCall(t, w) ==
    /\ pc[t] = "idle"
    /\ ops < MaxOps
    /\ w \in wrappers
    /\ w.kind = "ipy_register_func"
    /\ call' = [call EXCEPT ![t] =
                   [NoCall EXCEPT !.op = "ipy_wrapper", !.svc = w.svc,
                                  !.result = "ok", !.func_called = TRUE]]
    /\ ops' = ops + 1
    /\ UNCHANGED <<hstate, handles, sstate, dstate, pc, send, last_op>>

\* ------------------------------------------------------------ specification
\* the steps of the program when the threads of T make the calls; builds and
\* configuration calls come from any caller at any time
NextFor(T) ==
    \/ Acquire
    \/ \E s \in Services, in \in FieldInputs : AddExtraFields(s, in)
    \/ \E h \in handles, u \in Urls : SetServerUrl(h, u)
    \/ \E s \in CallServices, in \in PopInputs : RemoveFields(s, in)
    \/ \E h \in handles, s \in Services : BuildRecord(h, s, InputOf("t2"))
    \/ \E t \in T, h \in handles, s \in CallServices, running \in BOOLEAN :
            SarCall(t, h, s, running)
    \/ \E t \in T : SarResolve(t)
    \/ \E t \in T : SarBridge(t)
    \/ \E t \in T : SarWait(t)
    \/ \E t \in T : TaskPost(t)
    \/ \E t \in T, o \in Outcomes : TaskEnd(t, o)
    \/ \E d \in Decorations, s \in CallServices, a \in DecoArgs :
            Decorate(d.kind, s, d.fn, a.extra, a.pop)
    \/ \E t \in T, w \in wrappers, running \in BOOLEAN : WrapCall(t, w, running)
    \/ \E t \in T : WrapSend(t)
    \/ \E t \in T, o \in Outcomes : WrapBlock(t, o)
    \/ \E t \in T : WrapFunc(t)
    \/ \E t \in T, w \in wrappers : IpyCall(t, w)

\* one call site making the multi-step calls
Next == NextFor({"t1"})

Spec == Init /\ [][Next]_vars

\* two call sites making the multi-step calls, their steps interleaved
NextConcurrent == NextFor(Threads)

ConcurrentSpec == Init /\ [][NextConcurrent]_vars

\* the calling thread keeps running and the 0.1 s timeout of the wait passes;
\* nothing makes the network answer, so the task steps get no fairness
FairSpec ==
    Spec /\ \A t \in {"t1"} :
                WF_vars(SarResolve(t)) /\ WF_vars(SarBridge(t)) /\ WF_vars(SarWait(t))

\* ------------------------------------------------------------------ claims
InSar(t) == call[t].op = "send_api_request"
SarPcs == {"sar_resolve", "sar_bridge", "sar_wait"}

\* C1: once send_api_request has handed its record to the delivery bridge, the
\* call ends in a normal return, on both paths and whatever the delivery does
\* afterwards (transport error, non-2xx status, success, never finishing): the
\* result of the call is never an exception.
C1_NoDeliveryException ==
    \A t \in Threads :
        (InSar(t) /\ call[t].handed) =>
            /\ call[t].result \in {"pending", "ok"}
            /\ (pc[t] = "idle" => call[t].result = "ok")

\* a send on a running loop has failed after the call returned normally
C1_Witness ==
    \E t \in Threads :
        /\ InSar(t) /\ pc[t] = "idle" /\ call[t].result = "ok"
        /\ send[t].status = "warned"

\* C2: a call of a register_func wrapper that got as far as the delivery always
\* calls the wrapped function and returns its result, whatever the delivery
\* outcome and whether or not a loop is running.
C2_WrapperAlwaysReturns ==
    \A t \in Threads :
        (call[t].op = "wrapper" /\ call[t].handed /\ pc[t] = "idle") =>
            (call[t].result = "ok" /\ call[t].func_called)

\* C3: send_api_request for a service that is not in endpoints ends in KeyError,
\* hands nothing to the delivery bridge and has changed no handler state.
C3_UnknownServiceNoMutation ==
    \A t \in Threads :
        (InSar(t) /\ pc[t] = "idle" /\ call[t].svc \notin DOMAIN endpoints) =>
            (call[t].result = "KeyError" /\ ~call[t].handed /\ ~call[t].dirty)

\* C4: add_extra_fields for a service that is not in endpoints (with a valid
\* mapping) ends in KeyError and leaves the whole handler state as it was.
C4_AddUnknownUnchanged ==
    [][\A s \in Services, in \in FieldInputs :
          (AddExtraFields(s, in) /\ ValidDict(in) /\ s \notin DOMAIN endpoints) =>
              (last_op'.result = "KeyError" /\ UNCHANGED hstate)]_vars

\* an add_extra_fields call has ended in KeyError
C4_Witness ==
    /\ last_op = [op |-> "add_extra_fields", result |-> "KeyError"]
    /\ \E s \in DOMAIN _extra_fields : _extra_fields[s] # EmptyDict

\* C5: there is at most one ApiHandler object; every acquisition returns it,
\* an acquisition after the first changes nothing, and server_url reads the
\* same through every handle.
C5_Singleton ==
    /\ [](/\ Len(instances) <= 1
          /\ handles \subseteq {_instance}
          /\ \A h1, h2 \in handles : server_url(h1) = server_url(h2))
    /\ [][(Acquire /\ handles # {}) => UNCHANGED <<hstate, handles>>]_vars

\* the handler was acquired again (by a decoration) after server_url was set
C5_Witness ==
    /\ handles = {1}
    /\ server_url(1) = LOCALHOST
    /\ last_op = [op |-> "decorate", result |-> "ok"]

\* a step that is a successful add_extra_fields(s, f), called directly or by a
\* decorator
AddedOverlay(s, f) ==
    \/ AddExtraFields(s, [kind |-> "dict", val |-> f])
    \/ \E d \in Decorations, a \in DecoArgs :
            Decorate(d.kind, s, d.fn, a.extra, a.pop) /\ a.extra.val = f

\* C6: the overlays start empty; a successful add_extra_fields(s, f) makes the
\* overlay of s exactly f, whatever it was, and leaves every other overlay as it
\* was; no other step changes an overlay. So the overlay of s is always the
\* argument of the latest successful call for s.
C6_OverlayReplace ==
    /\ [](ops = 0 => \A s \in DOMAIN _extra_fields : _extra_fields[s] = EmptyDict)
    /\ [][/\ \A s \in DOMAIN endpoints, f \in Overlays :
                AddedOverlay(s, f) =>
                    _extra_fields' = [_extra_fields EXCEPT ![s] = f]
          /\ (~\E s \in DOMAIN endpoints, f \in Overlays : AddedOverlay(s, f)) =>
                UNCHANGED _extra_fields]_vars

\* two services have got different overlays, each its own
C6_Witness ==
    /\ last_op = [op |-> "add_extra_fields", result |-> "ok"]
    /\ _extra_fields["payu"] = [k \in {"function"} |-> "X"]
    /\ _extra_fields["intake_catalog"] = [k \in {"model"} |-> "X"]

\* the list the claim gives remove_fields for an argument
ClaimedList(in) == IF in.kind = "str" THEN <<in.s>> ELSE in.val

\* C7: remove_fields(s, F) makes the suppression list of s exactly F, a single
\* string counting as the one-element list, for known and unknown s, and leaves
\* the lists of the other services as they were.
C7_SuppressionReplace ==
    [][\A s \in CallServices, in \in PopInputs :
          RemoveFields(s, in) =>
              /\ _pop_fields'[s] = ClaimedList(in)
              /\ \A o \in DOMAIN _pop_fields \ {s} :
                    _pop_fields'[o] = _pop_fields[o]]_vars

\* a step that builds a record on object h for service s and call c
\* (the conjuncts before each action follow from it and are evaluated first)
BuiltBy(h, s, c) ==
    /\ ops' = ops + 1
    /\ \/ last_op'.op = "build" /\ BuildRecord(h, s, c)
       \/ \E t \in Threads :
            /\ c = InputOf(t)
            /\ call'[t].op = "send_api_request" /\ call'[t].svc = s
            /\ \E r \in BOOLEAN : SarCall(t, h, s, r)
       \/ \E t \in Threads :
            /\ c = InputOf(t)
            /\ call'[t].op = "wrapper" /\ call'[t].svc = s
            /\ \E w \in wrappers, r \in BOOLEAN :
                    w.h = h /\ w.svc = s /\ WrapCall(t, w, r)

C9_SendReturns ==
    \A t \in Threads : (pc[t] \in SarPcs) ~> (pc[t] = "idle")

\* a call without a running loop has returned while its send is still pending
C9_Witness ==
    \E t \in Threads :
        /\ InSar(t) /\ pc[t] = "idle" /\ call[t].result = "ok"
        /\ send[t].loop = "transient" /\ send[t].status = "scheduled"

\* C10: when send_api_request returns on the path without a running loop, the
\* POST of its record has been issued (it has completed or is in flight).
C10_SyncPathPosts ==
    \A t \in Threads :
        (InSar(t) /\ pc[t] = "idle" /\ call[t].result = "ok"
            /\ send[t].loop = "transient") => send[t].posts >= 1
\* C11: one send_api_request call makes at most one POST, on either path and
\* whatever the POST's outcome: the delivery it started never posts twice.
C11_AtMostOnePost ==
    \A t \in Threads : InSar(t) => send[t].posts <= 1

\* the one POST of a call on a running loop has failed and the send is over
C11_Witness ==
    \E t \in Threads :
        /\ InSar(t) /\ send[t].by = "api" /\ send[t].loop = "running"
        /\ send[t].status = "warned" /\ send[t].posts = 1
\* the session ids that the records now held (last records, payloads of calls
\* and of sends) carry
SessionIdsRead ==
    LET recs == {instances[h].last : h \in handles}
                    \cup {call[t].data : t \in Threads}
                    \cup {send[t].data : t \in Threads}
    IN  {r[1]["session_id"] : r \in {x \in recs : x # <<>>}}

C13_InvalidFieldsUnchanged ==
    [][\A s \in Services, in \in FieldInputs :
          (AddExtraFields(s, in) /\ in.kind # "dict") =>
              /\ last_op'.result = "ValidationError"
              /\ UNCHANGED <<hstate, handles, sstate, dstate>>]_vars

\* a call with a list has been turned down while an overlay was set
C13_Witness ==
    /\ last_op = [op |-> "add_extra_fields", result |-> "ValidationError"]
    /\ \E s \in DOMAIN _extra_fields : _extra_fields[s] # EmptyDict

\* C14: with a running loop the bridge step of send_api_request schedules the
\* send and the call returns at once, before the send has run; the steps of the
\* task afterwards change neither the call's result nor where the caller is.
C14_RunningLoopNoWait ==
    /\ [][\A t \in Threads :
            (SarBridge(t) /\ call[t].running) =>
                /\ pc'[t] = "idle" /\ call'[t].result = "ok"
                /\ send'[t].status = "scheduled" /\ send'[t].posts = 0
                /\ send'[t].loop = "running"]_vars
    /\ [][\A t \in Threads :
            (InSar(t) /\ (TaskPost(t) \/ \E o \in Outcomes : TaskEnd(t, o))) =>
                (call[t].result = "ok" /\ UNCHANGED <<pc, call>>)]_vars

\* the call has returned and its send is in flight on the running loop
C14_Witness ==
    \E t \in Threads :
        /\ InSar(t) /\ pc[t] = "idle" /\ call[t].result = "ok"
        /\ send[t].loop = "running" /\ send[t].status = "posted"
\* the suppression list of s names a key the merged record of s has not got
\* when its turn comes: a name outside base and overlay keys, or a name twice
AbsentName(s) ==
    LET pl == DictGet(_pop_fields, s, <<>>)
        names == {pl[i] : i \in 1..Len(pl)}
    IN  \/ ~(names \subseteq BaseKeys \cup DOMAIN DictGet(_extra_fields, s, EmptyDict))
        \/ Cardinality(names) # Len(pl)

\* C15: a build for a service whose suppression list names an absent field ends
\* in KeyError and stores no record; a send_api_request (or wrapper) call that
\* made the build ends there, with nothing handed to the delivery.
C15_AbsentNameKeyError ==
    [][\A s \in Services :
          (AbsentName(s) /\ ops' = ops + 1) =>
              \A h \in handles :
                  /\ \A c \in CallInputs :
                        (last_op'.op = "build" /\ BuildRecord(h, s, c)) =>
                            (last_op'.result = "KeyError" /\ UNCHANGED instances)
                  /\ \A t \in Threads :
                        ((\E r \in BOOLEAN : SarCall(t, h, s, r))
                            \/ (\E w \in wrappers, r \in BOOLEAN :
                                    w.h = h /\ w.svc = s /\ WrapCall(t, w, r))) =>
                            /\ call'[t].result = "KeyError" /\ ~call'[t].handed
                            /\ pc'[t] = "idle" /\ send'[t] = NoSend
                            /\ UNCHANGED instances]_vars

\* a send_api_request for a known service has ended in the KeyError of the
\* build: the list names a field that no overlay has added
C15_Witness ==
    \E t \in Threads :
        /\ InSar(t) /\ pc[t] = "idle" /\ call[t].result = "KeyError"
        /\ call[t].svc \in DOMAIN endpoints /\ ~call[t].handed
        /\ DictGet(_pop_fields, call[t].svc, <<>>) = <<"model">>
        /\ DictGet(_extra_fields, call[t].svc, EmptyDict) = EmptyDict
\* the record a build for service s and call c returns in this state
RecordOf(s, c) ==
    PopAll(Merge(BaseRecord(c, SessionID_read.value),
                 DictGet(_extra_fields, s, EmptyDict)),
           DictGet(_pop_fields, s, <<>>)).rec

\* C16: every build that returns a record (direct, in send_api_request, in the
\* wrapper) leaves the last-record field of its object equal to that record,
\* and no other step changes or clears the field of any object.
C16_LastRecordTracksBuild ==
    /\ [][\A h \in handles, s \in Services, c \in CallInputs :
            (BuiltBy(h, s, c) /\ ~AbsentName(s)) =>
                instances'[h].last = <<RecordOf(s, c)>>]_vars
    /\ [][(~\E h \in handles, s \in Services, c \in CallInputs : BuiltBy(h, s, c)) =>
                \A h \in handles : instances'[h].last = instances[h].last]_vars

\* a direct build has overwritten the record of an earlier send_api_request
C16_Witness ==
    \E t \in Threads, h \in handles :
        /\ InSar(t) /\ call[t].dirty
        /\ last_op = [op |-> "build", result |-> "ok"]
        /\ instances[h].last # <<>>
        /\ instances[h].last[1]["args"] = InputOf("t2").args
\* C17: the name of a function decorated with register_func is in the registry
\* of its service from the decoration on: every wrapper there is, and every
\* wrapper call (so every send a wrapper makes), finds its name registered.
C17_RegisteredBeforeSend ==
    /\ [](/\ \A w \in wrappers :
                w.kind = "register_func" => w.fn \in registry[w.svc]
          /\ \A t \in Threads :
                call[t].op = "wrapper" => InputOf(t).fn \in registry[call[t].svc])
    /\ [][\A s \in Services : registry[s] \subseteq registry'[s]]_vars

\* a wrapper's send has gone out for a registered name
C17_Witness ==
    \E t \in Threads :
        /\ call[t].op = "wrapper" /\ send[t].by = "wrapper" /\ send[t].posts = 1
        /\ InputOf(t).fn \in registry[call[t].svc]

\* C18: the endpoint map stays the one of the static configuration, and the
\* overlay map has exactly the known services as its keys.
C18_EndpointsFixed ==
    /\ endpoints = ENDPOINTS
    /\ DOMAIN _extra_fields = DOMAIN endpoints

\* an overlay for an unknown service was turned down, while the suppression map
\* has taken a list for one
C18_Witness ==
    /\ last_op = [op |-> "add_extra_fields", result |-> "KeyError"]
    /\ "nope" \in DOMAIN _pop_fields
    /\ "nope" \notin DOMAIN _extra_fields
\* C19: the URL a send_api_request call hands to the bridge is the server base
\* of its handler at that moment followed by endpoints[service]; assigning
\* server_url sets the base that later calls read and leaves the URL of every
\* call under way and of every send already scheduled as it was.
C19_UrlAtCallTime ==
    /\ [][\A t \in Threads :
            (SarResolve(t) /\ call[t].svc \in DOMAIN ENDPOINTS) =>
                LET h == call[t].h
                    base == IF instances[h].url = NoAttr THEN SERVER_URL
                            ELSE instances[h].url
                IN  call'[t].url = <<base, ENDPOINTS[call[t].svc]>>]_vars
    /\ [][\A t \in Threads : SarBridge(t) => send'[t].url = call[t].url]_vars
    /\ [][\A h \in handles, u \in Urls :
            SetServerUrl(h, u) =>
                (instances'[h].url = u /\ UNCHANGED <<call, send>>)]_vars

\* server_url was assigned after a send to the default base was scheduled
C19_Witness ==
    \E t \in Threads, h \in handles :
        /\ InSar(t) /\ send[t].status = "scheduled"
        /\ send[t].url = <<SERVER_URL, ENDPOINTS["payu"]>>
        /\ instances[h].url = LOCALHOST
        /\ last_op = [op |-> "server_url", result |-> "ok"]

\* C20: when send_api_request calls of two call sites interleave, each call
\* keeps the record it built itself (for its own service and call) through
\* the other's steps and hands that record to the bridge, whatever the shared
\* last-record field holds by then.
C20_PayloadIsolation ==
    /\ [][\A t \in Threads, h \in handles, s \in CallServices :
            (call'[t].op = "send_api_request" /\ pc'[t] = "sar_resolve"
                /\ \E r \in BOOLEAN : SarCall(t, h, s, r)) =>
                call'[t].data = <<RecordOf(s, InputOf(t))>>]_vars
    /\ [][\A t \in Threads :
            (pc[t] \in SarPcs /\ pc'[t] \in SarPcs) =>
                call'[t].data = call[t].data]_vars
    /\ [][\A t \in Threads : SarBridge(t) => send'[t].data = call[t].data]_vars
    /\ [](\A t \in Threads :
            (InSar(t) /\ send[t].data # <<>>) =>
                /\ send[t].data[1]["args"] = InputOf(t).args
                /\ send[t].data[1]["kwargs"] = InputOf(t).kwargs)

\* two calls are both handed to the bridge, each with its own record, and the
\* last-record field holds the record of one of them only
C20_Witness ==
    \E h \in handles :
        /\ InSar("t1") /\ InSar("t2")
        /\ send["t1"].data # <<>> /\ send["t2"].data # <<>>
        /\ send["t1"].data[1]["args"] = InputOf("t1").args
        /\ send["t2"].data[1]["args"] = InputOf("t2").args
        /\ instances[h].last = send["t2"].data
        /\ send["t1"].status = "posted"
\* C21: a decoration for a known service s, of any function and by either
\* decorator, makes the overlay and the suppression list of s the ones its
\* decorator was given (empty when it was given none), whatever an earlier
\* decoration had set, and leaves the other services' alone; a wrapper call
\* builds its record from what its service has at the time of the call.
C21_ConfigPerService ==
    /\ [][\A d \in Decorations, s \in DOMAIN ENDPOINTS, a \in DecoArgs :
            (last_op'.op = "decorate"
                /\ Decorate(d.kind, s, d.fn, a.extra, a.pop)) =>
                /\ DOMAIN _extra_fields' = DOMAIN _extra_fields
                /\ DOMAIN _pop_fields' = DOMAIN _pop_fields \cup {s}
                /\ _extra_fields'[s] = a.extra.val
                /\ _pop_fields'[s] = a.pop.val
                /\ \A o \in DOMAIN _extra_fields \ {s} :
                        _extra_fields'[o] = _extra_fields[o]
                /\ \A o \in DOMAIN _pop_fields \ {s} :
                        _pop_fields'[o] = _pop_fields[o]]_vars
    /\ [][\A t \in Threads, w \in wrappers :
            (call'[t].op = "wrapper" /\ ~AbsentName(w.svc)
                /\ \E r \in BOOLEAN : WrapCall(t, w, r)) =>
                call'[t].data = <<RecordOf(w.svc, InputOf(t))>>]_vars

\* f and g are both decorated for payu; a record of f built under the first
\* decoration's overlay and list is still on its way, and the second
\* decoration, given neither, has left the service with none
C21_Witness ==
    \E t \in Threads :
        /\ send[t].by = "wrapper" /\ send[t].data # <<>>
        /\ DOMAIN send[t].data[1] = (BaseKeys \cup {"model"}) \ {"name"}
        /\ registry["payu"] = {"f", "g"}
        /\ last_op = [op |-> "decorate", result |-> "ok"]
        /\ _extra_fields["payu"] = EmptyDict
        /\ DictGet(_pop_fields, "payu", <<"?">>) = <<>>
\* C22: a decoration (by either decorator) for a service that is not in
\* endpoints ends in KeyError and stores no overlay and no suppression list,
\* registers no name and produces no wrapper; so there is never a wrapper, a
\* registered name or a wrapper call for such a service.
C22_UnknownServiceDecoration ==
    /\ [][\A d \in Decorations, s \in Services \ DOMAIN ENDPOINTS, a \in DecoArgs :
            (last_op'.op = "decorate"
                /\ Decorate(d.kind, s, d.fn, a.extra, a.pop)) =>
                /\ last_op'.result = "KeyError"
                /\ UNCHANGED <<endpoints, _extra_fields, _pop_fields, dstate,
                               sstate, tstate>>]_vars
    /\ [](/\ \A w \in wrappers : w.svc \in DOMAIN ENDPOINTS
          /\ \A s \in Services \ DOMAIN ENDPOINTS : registry[s] = {}
          /\ \A t \in Threads :
                call[t].op \in {"wrapper", "ipy_wrapper"} =>
                    call[t].svc \in DOMAIN ENDPOINTS)

\* a decoration for an unknown service was turned down after one for a known
\* service had gone through
C22_Witness ==
    /\ last_op = [op |-> "decorate", result |-> "KeyError"]
    /\ wrappers # {}
    /\ registry["nope"] = {}
    /\ "nope" \notin DOMAIN _pop_fields
====
